---- MODULE Spec2Model ----
(***************************************************************************)
(* Model of the knowledge base of src/minesweeper.py: the Sentence value   *)
(* type, the MinesweeperAI derived sets and the propagation loop of        *)
(* MinesweeperAI.add_knowledge.                                            *)
(*                                                                         *)
(* A Sentence is a record [cells, count].  ai.knowledge is a sequence of   *)
(* Sentences (a Python list, order kept).  The while(repeat) loop of       *)
(* add_knowledge is modelled pass by pass: pc = "pass" is the loop head    *)
(* (line 223), pc = "infer" is line 254 (after the marking half of a pass),*)
(* pc = "idle" means no call is running.  passes counts the passes the     *)
(* running (or last) call has started, and is not counted beyond           *)
(* PassLimit + 1; op names the last call made and result is the value it   *)
(* returned.                                                               *)
(*                                                                         *)
(* Spec: an AI called with any cells and counts.  GameSpec: an AI fed by   *)
(* a Minesweeper board with true counts.  MoveSpec: Spec with calls of     *)
(* make_safe_move.  SentenceSpec: one Sentence used through its methods.   *)
(***************************************************************************)
EXTENDS Integers, Sequences, FiniteSets, TLC

\* ---- bounds of the model ----
Height == 2
Width == 3
MaxMines == 3
MaxObs == 2
MaxCalls == 2
MaxCount == 2
CountCap == 4

VARIABLES board, moves_made, safes, mines, knowledge, pc, repeat, passes, calls, op,
          result

vars == <<board, moves_made, safes, mines, knowledge, pc, repeat, passes, calls, op,
          result>>

\* Python's None as a returned value; a returned cell is a pair <<i, j>>
None == <<>>

\* ---- the grid ----
Cells == (0 .. Height - 1) \X (0 .. Width - 1)

\* passes are counted up to one more than this
PassLimit == Cardinality(Cells) + 1

Boards == {b \in SUBSET Cells : Cardinality(b) <= MaxMines}

\* MinesweeperAI.add_knowledge, lines 203-204: in-bounds cells within one row
\* and one column of cell, cell itself excluded.
\* variant: the ranges of lines 203-204 taken on one axis at a time (no diagonals)
all_cells_around_orthogonal(cell) ==
    {c \in Cells : /\ c # cell
                   /\ \/ c[1] = cell[1] /\ c[2] \in (cell[2] - 1) .. (cell[2] + 1)
                      \/ c[2] = cell[2] /\ c[1] \in (cell[1] - 1) .. (cell[1] + 1)}

all_cells_around(cell) ==
    {c \in Cells : /\ c[1] \in (cell[1] - 1) .. (cell[1] + 1)
                   /\ c[2] \in (cell[2] - 1) .. (cell[2] + 1)
                   /\ c # cell}

\* Minesweeper.nearby_mines on a board given as its set of mines.
nearby_mines(b, cell) ==
    Cardinality({c \in Cells : /\ c[1] \in (cell[1] - 1) .. (cell[1] + 1)
                               /\ c[2] \in (cell[2] - 1) .. (cell[2] + 1)
                               /\ c # cell
                               /\ c \in b})

\* ---- Sentence ----
Sentence(cells, count) == [cells |-> cells, count |-> count]

\* Sentence.__eq__
Sentence_eq(s1, s2) == s1.cells = s2.cells /\ s1.count = s2.count

\* Sentence.known_mines
\* variant: line 109 written with >= (a count above the number of cells passes too)
known_mines_at_least(s) == IF Cardinality(s.cells) <= s.count THEN s.cells ELSE {}

known_mines(s) == IF Cardinality(s.cells) = s.count THEN s.cells ELSE {}

\* variant: known_safes tests what known_mines tests
known_safes_when_full(s) == IF Cardinality(s.cells) = s.count THEN s.cells ELSE {}

\* Sentence.known_safes
known_safes(s) == IF s.count = 0 THEN s.cells ELSE {}

\* variant: the cell is removed but the count is left as it was
Sentence_mark_mine_keeps_count(s, cell) ==
    IF cell \in s.cells
    THEN [cells |-> s.cells \ {cell}, count |-> s.count]
    ELSE s

\* variant: the test of line 128 is missing, the count drops for any cell
Sentence_mark_mine_any(s, cell) ==
    [cells |-> s.cells \ {cell}, count |-> s.count - 1]

\* Sentence.mark_mine
Sentence_mark_mine(s, cell) ==
    IF cell \in s.cells
    THEN [cells |-> s.cells \ {cell}, count |-> s.count - 1]
    ELSE s

\* variant: mark_safe written like mark_mine, the count is decremented too
Sentence_mark_safe_decrements(s, cell) ==
    IF cell \in s.cells
    THEN [cells |-> s.cells \ {cell}, count |-> s.count - 1]
    ELSE s

\* variant: the cell is not removed (line 138 missing)
Sentence_mark_safe_keeps_cell(s, cell) == s

\* Sentence.mark_safe
Sentence_mark_safe(s, cell) ==
    IF cell \in s.cells
    THEN [cells |-> s.cells \ {cell}, count |-> s.count]
    ELSE s

\* ---- MinesweeperAI helpers on the knowledge list ----
\* variant: only the first sentence of the list gets mark_mine(cell)
MarkMineFirstOnly(kn, cell) ==
    [i \in DOMAIN kn |-> IF i = 1 THEN Sentence_mark_mine(kn[i], cell) ELSE kn[i]]

\* lines 168-169: every sentence of the list gets mark_mine(cell)
MarkMineAll(kn, cell) == [i \in DOMAIN kn |-> Sentence_mark_mine(kn[i], cell)]

\* lines 177-178: every sentence of the list gets mark_safe(cell)
MarkSafeAll(kn, cell) == [i \in DOMAIN kn |-> Sentence_mark_safe(kn[i], cell)]

\* `x in list` of Python, with Sentence.__eq__
InList(s, kn) == \E i \in DOMAIN kn : Sentence_eq(kn[i], s)

\* lines 241-244: for mine in adjusted_mines: if mine not in self.mines: self.mark_mine(mine)
RECURSIVE MarkMines(_, _)
MarkMines(kn, todo) ==
    IF todo = {} THEN kn
    ELSE LET c == CHOOSE x \in todo : TRUE
         IN MarkMines(MarkMineAll(kn, c), todo \ {c})

\* lines 246-249: for safe in adjusted_safes: if safe not in self.safes: self.mark_safe(safe)
RECURSIVE MarkSafes(_, _)
MarkSafes(kn, todo) ==
    IF todo = {} THEN kn
    ELSE LET c == CHOOSE x \in todo : TRUE
         IN MarkSafes(MarkSafeAll(kn, c), todo \ {c})

\* variant: line 227 missing, sentences without cells stay in the list
Clean_keeps_all(kn) == kn

\* line 227: drop the sentences without cells
Clean(kn) == SelectSeq(kn, LAMBDA s : s.cells # {})

\* lines 232-239
adjusted_mines(kn) == UNION {known_mines(kn[i]) : i \in DOMAIN kn}

adjusted_safes(kn) == UNION {known_safes(kn[i]) : i \in DOMAIN kn}

\* variant: a sentence is also compared with itself (line 257 missing)
DerivePairNoSkip(s1, s2) ==
    IF s1.cells # {} /\ s2.cells # {}
    THEN IF s1.cells \subseteq s2.cells
         THEN <<Sentence(s2.cells \ s1.cells, s2.count - s1.count)>>
         ELSE IF s2.cells \subseteq s1.cells
              THEN <<Sentence(s1.cells \ s2.cells, s1.count - s2.count)>>
              ELSE <<>>
    ELSE <<>>

\* variant: the guard of line 264 never holds, no pair derives a sentence
DerivePairNever(s1, s2) == <<>>

\* lines 257-281 for one ordered pair (sentence1, sentence2): the sentence the
\* pair derives, as a sequence of length 0 or 1.
DerivePair(s1, s2) ==
    IF Sentence_eq(s1, s2) THEN <<>>
    ELSE IF s1.cells # {} /\ s2.cells # {}
         THEN IF s1.cells \subseteq s2.cells
              THEN <<Sentence(s2.cells \ s1.cells, s2.count - s1.count)>>
              ELSE IF s2.cells \subseteq s1.cells
                   THEN <<Sentence(s1.cells \ s2.cells, s1.count - s2.count)>>
                   ELSE <<>>
         ELSE <<>>

\* lines 254-281: the nested loops over self.knowledge; k numbers the ordered
\* pairs (i, j) in iteration order, acc is new_knowledge so far.
RECURSIVE InferFrom(_, _, _)
InferFrom(kn, k, acc) ==
    LET n == Len(kn) IN
    IF k > n * n THEN acc
    ELSE LET i == ((k - 1) \div n) + 1
             j == ((k - 1) % n) + 1
             d == DerivePair(kn[i], kn[j])
         IN InferFrom(kn, k + 1,
                      IF d # <<>> /\ ~InList(d[1], kn) /\ ~InList(d[1], acc)
                      THEN Append(acc, d[1])
                      ELSE acc)

new_knowledge(kn) == InferFrom(kn, 1, <<>>)

\* lines 205-212
\* variant: line 211 tests self.moves_made and self.mines only, not self.safes
adjusted_cells_not_safes(cell) ==
    {c \in all_cells_around(cell) :
        c \notin mines /\ c \notin moves_made \union {cell}}

adjusted_cells(cell) ==
    {c \in all_cells_around(cell) :
        c \notin mines /\ c \notin moves_made \union {cell} /\ c \notin safes \union {cell}}

\* variant: the neighbours already known to be mines are not subtracted
adjusted_count_raw(cell, count) == count

adjusted_count(cell, count) ==
    count - Cardinality(all_cells_around(cell) \cap mines)

\* ---- the marking half of one pass, lines 224-249, as a function of the state ----
PassMines(kn, mn) == adjusted_mines(Clean(kn)) \ mn

PassSafes(kn, sf) == adjusted_safes(Clean(kn)) \ sf

PassMarked(kn, mn, sf) ==
    MarkSafes(MarkMines(Clean(kn), PassMines(kn, mn)), PassSafes(kn, sf))

\* variant: the marking half never sets repeat (lines 235, 239, 244, 249 missing)
PassMarkRepeatNever(kn, mn, sf) == FALSE

\* variant: lines 238-239 and 249 do not set repeat (only mines ask for another pass)
PassMarkRepeatMinesOnly(kn, mn, sf) ==
    \/ \E i \in DOMAIN Clean(kn) : known_mines(Clean(kn)[i]) # {}
    \/ PassMines(kn, mn) # {}

\* repeat after line 249
PassMarkRepeat(kn, mn, sf) ==
    \/ \E i \in DOMAIN Clean(kn) : known_mines(Clean(kn)[i]) # {}
    \/ \E i \in DOMAIN Clean(kn) : known_safes(Clean(kn)[i]) # {}
    \/ PassMines(kn, mn) # {}
    \/ PassSafes(kn, sf) # {}

\* counts of the model stay within the cap
WithinCap(kn) == \A i \in DOMAIN kn : kn[i].count \in (0 - CountCap) .. CountCap

\* lines 222-285 from the loop head on: the passes run one after the other
\* until one sets no flag; the state the call returns in.  fuel is the number
\* of further passes that are followed; returns is FALSE when it runs out or
\* a derived count leaves the range that is followed.
RECURSIVE run_loop(_, _, _, _)
run_loop(kn, mn, sf, fuel) ==
    LET km == PassMarked(kn, mn, sf)
        nk == new_knowledge(km)
        mn2 == mn \union PassMines(kn, mn)
        sf2 == sf \union PassSafes(kn, sf)
    IN IF ~(PassMarkRepeat(kn, mn, sf) \/ nk # <<>>)
       THEN [returns |-> TRUE, knowledge |-> km \o nk, mines |-> mn2, safes |-> sf2]
       ELSE IF fuel = 0 \/ ~WithinCap(nk)
            THEN [returns |-> FALSE, knowledge |-> km \o nk, mines |-> mn2, safes |-> sf2]
            ELSE run_loop(km \o nk, mn2, sf2, fuel - 1)

\* ---- whole calls as functions of the AI's fields ----
\* MinesweeperAI.__init__ as a record of the fields
new_ai == [moves_made |-> {}, safes |-> {}, mines |-> {}, knowledge |-> <<>>]

\* add_knowledge(cell, count), lines 196-285, from entry to return on an AI
\* whose fields are ai (for calls whose loop ends within PassLimit passes)
observe(ai, cell, count) ==
    LET mm == ai.moves_made \union {cell}
        sf == ai.safes \union {cell}
        kn == MarkSafeAll(ai.knowledge, cell)
        around == all_cells_around(cell)
        ac == {c \in around : c \notin ai.mines /\ c \notin mm /\ c \notin sf}
        n == count - Cardinality(around \cap ai.mines)
        end == run_loop(IF ac # {} THEN Append(kn, Sentence(ac, n)) ELSE kn,
                        ai.mines, sf, PassLimit)
    IN [moves_made |-> mm, safes |-> end.safes, mines |-> end.mines,
        knowledge |-> end.knowledge]

\* the game played on board b: the cells of order revealed one after the other,
\* each reported with nearby_mines
RECURSIVE play(_, _, _)
play(ai, b, order) ==
    IF order = <<>> THEN ai
    ELSE play(observe(ai, Head(order), nearby_mines(b, Head(order))), b, Tail(order))

\* ---- initial state: MinesweeperAI.__init__ ----
InitAI ==
    /\ moves_made = {}
    /\ mines = {}
    /\ safes = {}
    /\ knowledge = <<>>
    /\ pc = "idle"
    /\ repeat = FALSE
    /\ passes = 0
    /\ calls = 0
    /\ op = "init"
    /\ result = None

\* the AI driven directly by a caller, no game attached
Init == board = {} /\ InitAI

\* the AI driven by a Minesweeper game
GameInit == board \in Boards /\ InitAI

\* ---- operations ----
\* MinesweeperAI.add_knowledge up to the loop head, lines 196-222
add_knowledge(cell, count) ==
    /\ pc = "idle"
    /\ moves_made' = moves_made \union {cell}
    /\ safes' = safes \union {cell}
    /\ mines' = mines
    /\ LET kn == MarkSafeAll(knowledge, cell)
           ac == adjusted_cells(cell)
       IN knowledge' = IF ac # {}
                       THEN Append(kn, Sentence(ac, adjusted_count(cell, count)))
                       ELSE kn
    /\ repeat' = TRUE
    /\ passes' = 0
    /\ pc' = "pass"
    /\ op' = "add_knowledge"
    /\ result' = None
    /\ UNCHANGED board

\* first half of a pass of the loop, lines 223-249
PassMark ==
    /\ pc = "pass"
    /\ knowledge' = PassMarked(knowledge, mines, safes)
    /\ mines' = mines \union PassMines(knowledge, mines)
    /\ safes' = safes \union PassSafes(knowledge, safes)
    /\ repeat' = PassMarkRepeat(knowledge, mines, safes)
    /\ pc' = "infer"
    /\ passes' = IF passes > PassLimit THEN passes ELSE passes + 1
    /\ UNCHANGED <<board, moves_made, calls, op, result>>

\* second half of a pass, lines 254-285, and the loop test of line 223
PassInfer ==
    /\ pc = "infer"
    /\ LET nk == new_knowledge(knowledge)
       IN /\ WithinCap(nk)
          /\ knowledge' = knowledge \o nk
          /\ repeat' = (repeat \/ nk # <<>>)
    /\ pc' = IF repeat' THEN "pass" ELSE "idle"
    /\ UNCHANGED <<board, moves_made, safes, mines, passes, calls, op, result>>

\* MinesweeperAI.mark_mine called from outside, lines 167-169
mark_mine(cell) ==
    /\ pc = "idle"
    /\ calls < MaxCalls
    /\ calls' = calls + 1
    /\ mines' = mines \union {cell}
    /\ knowledge' = MarkMineAll(knowledge, cell)
    /\ op' = "mark_mine"
    /\ result' = None
    /\ UNCHANGED <<board, moves_made, safes, pc, repeat, passes>>

\* variant: marking a cell safe also takes it out of self.mines
mark_safe_moves(cell) ==
    /\ pc = "idle"
    /\ calls < MaxCalls
    /\ calls' = calls + 1
    /\ safes' = safes \union {cell}
    /\ mines' = mines \ {cell}
    /\ knowledge' = MarkSafeAll(knowledge, cell)
    /\ op' = "mark_safe"
    /\ result' = None
    /\ UNCHANGED <<board, moves_made, pc, repeat, passes>>

\* MinesweeperAI.mark_safe called from outside, lines 176-178
mark_safe(cell) ==
    /\ pc = "idle"
    /\ calls < MaxCalls
    /\ calls' = calls + 1
    /\ safes' = safes \union {cell}
    /\ knowledge' = MarkSafeAll(knowledge, cell)
    /\ op' = "mark_safe"
    /\ result' = None
    /\ UNCHANGED <<board, moves_made, mines, pc, repeat, passes>>

\* variant: the test of line 328 is missing, the first cell of self.safes is returned
make_safe_move_any ==
    /\ pc = "idle"
    /\ IF safes # {}
       THEN \E move \in safes : result' = move
       ELSE result' = None
    /\ op' = "make_safe_move"
    /\ UNCHANGED <<board, moves_made, safes, mines, knowledge, pc, repeat, passes, calls>>

\* MinesweeperAI.make_safe_move, lines 326-331.  The for loop meets the cells
\* of the set self.safes in an order the caller does not control, so any cell
\* that passes the test of line 328 can be the one returned; when the loop
\* ends without a return the function falls off its end and returns None.
make_safe_move ==
    /\ pc = "idle"
    /\ IF safes # {}
       THEN \/ \E move \in safes : move \notin moves_made /\ result' = move
            \/ (\A move \in safes : move \in moves_made) /\ result' = None
       ELSE result' = None
    /\ op' = "make_safe_move"
    /\ UNCHANGED <<board, moves_made, safes, mines, knowledge, pc, repeat, passes, calls>>

\* a caller passes any in-bounds cell and any count
Observe ==
    \E cell \in Cells, count \in 0 .. MaxCount :
        /\ calls < MaxCalls
        /\ calls' = calls + 1
        /\ add_knowledge(cell, count)

\* the game reveals a cell that is no mine and was not revealed before and
\* reports nearby_mines(cell)
Reveal ==
    \E cell \in Cells \ (board \union moves_made) :
        /\ calls < MaxObs
        /\ calls' = calls + 1
        /\ add_knowledge(cell, nearby_mines(board, cell))

AssertMine == \E cell \in Cells : mark_mine(cell)

AssertSafe == \E cell \in Cells : mark_safe(cell)

Next == Observe \/ AssertMine \/ AssertSafe \/ PassMark \/ PassInfer

Spec == Init /\ [][Next]_vars

GameNext == Reveal \/ PassMark \/ PassInfer

GameSpec == GameInit /\ [][GameNext]_vars

\* the caller also asks for safe moves between its calls
MoveNext == Next \/ make_safe_move

MoveSpec == Init /\ [][MoveNext]_vars

\* ---- a Sentence on its own ----
\* One Sentence object, held as the only element of knowledge, built by
\* Sentence(cells, count) from any set of cells and any count and then used
\* through its four methods; the fields of the AI stay as constructed.
SentenceCounts == (0 - 1) .. (MaxCount + 1)

SentenceInit ==
    /\ board = {}
    /\ moves_made = {}
    /\ mines = {}
    /\ safes = {}
    /\ pc = "idle"
    /\ repeat = FALSE
    /\ passes = 0
    /\ calls = 0
    /\ op = "init"
    /\ result = None
    /\ \E cells \in SUBSET Cells, count \in SentenceCounts :
          knowledge = <<Sentence(cells, count)>>

SentenceMarkMine ==
    \E cell \in Cells :
        /\ knowledge' = <<Sentence_mark_mine(knowledge[1], cell)>>
        /\ op' = "Sentence.mark_mine"
        /\ result' = None
        /\ UNCHANGED <<board, moves_made, safes, mines, pc, repeat, passes, calls>>

SentenceMarkSafe ==
    \E cell \in Cells :
        /\ knowledge' = <<Sentence_mark_safe(knowledge[1], cell)>>
        /\ op' = "Sentence.mark_safe"
        /\ result' = None
        /\ UNCHANGED <<board, moves_made, safes, mines, pc, repeat, passes, calls>>

SentenceKnownMines ==
    /\ result' = known_mines(knowledge[1])
    /\ op' = "Sentence.known_mines"
    /\ UNCHANGED <<board, moves_made, safes, mines, knowledge, pc, repeat, passes, calls>>

SentenceKnownSafes ==
    /\ result' = known_safes(knowledge[1])
    /\ op' = "Sentence.known_safes"
    /\ UNCHANGED <<board, moves_made, safes, mines, knowledge, pc, repeat, passes, calls>>

SentenceNext ==
    SentenceMarkMine \/ SentenceMarkSafe \/ SentenceKnownMines \/ SentenceKnownSafes

SentenceSpec == SentenceInit /\ [][SentenceNext]_vars

\* the loop is straight-line code: a pass that can run does run
FairSpec == Spec /\ WF_vars(PassMark) /\ WF_vars(PassInfer)


\* the state in which the running call returns (the current one when no call
\* is running)
AtReturn ==
    IF pc = "pass" THEN run_loop(knowledge, mines, safes, PassLimit)
    ELSE IF pc = "infer"
         THEN LET nk == new_knowledge(knowledge)
              IN IF repeat \/ nk # <<>>
                 THEN run_loop(knowledge \o nk, mines, safes, PassLimit)
                 ELSE [returns |-> TRUE, knowledge |-> knowledge,
                       mines |-> mines, safes |-> safes]
         ELSE [returns |-> TRUE, knowledge |-> knowledge,
               mines |-> mines, safes |-> safes]

\* ---- vocabulary of the claims ----
\* an add_knowledge call has just returned
Returned == pc = "idle" /\ op = "add_knowledge"

\* the number of true mines among a set of cells
TrueMines(cells) == Cardinality(cells \cap board)

\* C1: with truthful observations of distinct non-mine cells, after every
\* add_knowledge call every cell of ai.mines is a mine of the grid and no cell
\* of ai.safes is one.
C1_DerivedSetsSound ==
    Returned => (mines \subseteq board /\ safes \cap board = {})

\* a call returned with a mine found and a safe cell found that was never revealed
C1_Witness ==
    /\ Returned
    /\ mines # {}
    /\ safes \ moves_made # {}
    /\ mines \subseteq board
    /\ calls = 2

\* C2: with truthful observations, after every add_knowledge call every
\* Sentence of ai.knowledge, derived ones included, has count equal to the
\* number of true mines among its cells, hence 0 <= count <= |cells|.
C2_SentencesSound ==
    Returned =>
        \A i \in DOMAIN knowledge :
            /\ knowledge[i].count = TrueMines(knowledge[i].cells)
            /\ knowledge[i].count >= 0
            /\ knowledge[i].count <= Cardinality(knowledge[i].cells)

\* a call returned leaving the two observed sentences and one derived by
\* subset elimination from them
C2_Witness ==
    /\ Returned
    /\ Len(knowledge) >= 3
    /\ \E i, j, k \in DOMAIN knowledge :
          /\ knowledge[i].cells \subseteq knowledge[j].cells
          /\ knowledge[i].cells # knowledge[j].cells
          /\ knowledge[k].cells = knowledge[j].cells \ knowledge[i].cells
          /\ knowledge[k].count = knowledge[j].count - knowledge[i].count
          /\ knowledge[k].count > 0

\* C3: with truthful observations the propagation loop of every call finishes:
\* it reaches a pass that sets no change flag and returns, after at most
\* PassLimit passes (the number of cells of the grid plus one).
C3_LoopTerminates == passes <= PassLimit

\* a call returned after three passes: one that derived a sentence, one that
\* marked cells with it, and the last one that changed nothing
C3_Witness ==
    /\ Returned
    /\ passes = 3
    /\ calls = 2

\* C4: with truthful observations, after any add_knowledge call returns
\* ai.mines and ai.safes are disjoint and ai.moves_made is a subset of ai.safes.
C4_DisjointAndPlayedSafe ==
    Returned => (mines \cap safes = {} /\ moves_made \subseteq safes)

\* a call returned with known mines, known safes and two revealed cells
C4_Witness ==
    /\ Returned
    /\ mines # {}
    /\ Cardinality(moves_made) = 2
    /\ safes \ moves_made # {}

\* C5: once the last call of any sequence of add_knowledge, mark_mine and
\* mark_safe calls has returned, no Sentence of ai.knowledge contains a cell of
\* ai.mines, ai.safes or ai.moves_made.
C5_NoKnownCellInSentence ==
    pc = "idle" =>
        \A i \in DOMAIN knowledge :
            knowledge[i].cells \cap (mines \union safes \union moves_made) = {}

\* a direct mark_mine returned and a sentence with cells is left
C5_Witness ==
    /\ pc = "idle"
    /\ op = "mark_mine"
    /\ mines # {}
    /\ \E i \in DOMAIN knowledge : knowledge[i].cells # {}

\* C6: an add_knowledge call whose count is smaller than the number of the
\* cell's neighbours already in ai.mines (adjusted count negative) is refused:
\* the call appends no Sentence with a negative count to ai.knowledge.
C6_NegativeCountRejected ==
    [][\A cell \in Cells, count \in 0 .. MaxCount :
          (add_knowledge(cell, count) /\ adjusted_count(cell, count) < 0)
              => \A i \in DOMAIN knowledge' :
                    i > Len(knowledge) => knowledge'[i].count >= 0]_vars

\* C7: add_knowledge on a cell already in ai.moves_made is refused: no new
\* Sentence is appended and the derived sets are not changed.
C7_RepeatedObservationRejected ==
    [][\A cell \in moves_made, count \in 0 .. MaxCount :
          add_knowledge(cell, count)
              => /\ Len(knowledge') = Len(knowledge)
                 /\ moves_made' = moves_made
                 /\ safes' = safes
                 /\ mines' = mines]_vars

\* C8: for arbitrary in-bounds cells and arbitrary counts the propagation loop
\* of every call finishes: again and again no call is running.
C8_PropagationCompletes == []<>(pc = "idle")

\* no non-empty Sentence is determined (count == 0 or count == |cells|) while
\* its cells are missing from ai.safes / ai.mines
AtFixpoint ==
    \A i \in DOMAIN knowledge :
        knowledge[i].cells # {} =>
            /\ knowledge[i].count = 0 => knowledge[i].cells \subseteq safes
            /\ knowledge[i].count = Cardinality(knowledge[i].cells)
                   => knowledge[i].cells \subseteq mines

\* C9 as stated: after a direct mark_mine or mark_safe call returns, the
\* engine is at a fixpoint again.
C9_AssertRestoresFixpoint ==
    (pc = "idle" /\ op \in {"mark_mine", "mark_safe"}) => AtFixpoint

\* C9 as amended: a direct mark_mine(cell) or mark_safe(cell) adds cell to
\* ai.mines (resp. ai.safes) and removes it from every Sentence, the count of
\* each sentence that held it one smaller for mark_mine and unchanged for
\* mark_safe; it runs no propagation: no other cell enters ai.mines or ai.safes,
\* ai.moves_made is unchanged and no Sentence is added or discarded.
C9_AssertOnlyMarks ==
    [][(pc = "idle" /\ pc' = "idle" /\ calls' # calls) =>
          \E cell \in Cells :
              /\ moves_made' = moves_made
              /\ Len(knowledge') = Len(knowledge)
              /\ \A i \in DOMAIN knowledge :
                    knowledge'[i].cells = knowledge[i].cells \ {cell}
              /\ \/ /\ op' = "mark_mine"
                    /\ mines' = mines \union {cell}
                    /\ safes' = safes
                    /\ \A i \in DOMAIN knowledge :
                          knowledge'[i].count =
                              IF cell \in knowledge[i].cells
                              THEN knowledge[i].count - 1
                              ELSE knowledge[i].count
                 \/ /\ op' = "mark_safe"
                    /\ safes' = safes \union {cell}
                    /\ mines' = mines
                    /\ \A i \in DOMAIN knowledge :
                          knowledge'[i].count = knowledge[i].count]_vars

\* a direct mark_mine returned and left a Sentence with cells and count 0
\* whose cells are not in ai.safes: propagation did not run
C9_Witness ==
    /\ pc = "idle"
    /\ op = "mark_mine"
    /\ \E i \in DOMAIN knowledge :
          /\ knowledge[i].cells # {}
          /\ knowledge[i].count = 0
          /\ knowledge[i].cells \cap safes = {}

\* C10: immediately after add_knowledge returns, one more propagation pass
\* (discard empty sentences, collect known mines and safes, mark them, subset
\* elimination) changes none of ai.moves_made, ai.safes, ai.mines, ai.knowledge.
C10_FixpointIdempotent ==
    Returned =>
        /\ PassMines(knowledge, mines) = {}
        /\ PassSafes(knowledge, safes) = {}
        /\ PassMarked(knowledge, mines, safes) = knowledge
        /\ new_knowledge(PassMarked(knowledge, mines, safes)) = <<>>

\* a call returned after marking cells and leaves two sentences with cells
C10_Witness ==
    /\ Returned
    /\ passes >= 2
    /\ Len(knowledge) >= 2
    /\ (mines \union safes) \ moves_made # {}
    /\ \A i \in DOMAIN knowledge : knowledge[i].cells # {}

\* sentence a says of a subset of b's cells what b says of all of them, and
\* is not structurally equal to b
SubsetPair(a, b) ==
    /\ a.cells \subseteq b.cells
    /\ ~(a.cells = b.cells /\ a.count = b.count)

\* the list holds the difference of every such pair
Closed(kn) ==
    \A i, j \in DOMAIN kn :
        SubsetPair(kn[i], kn[j]) =>
            \E k \in DOMAIN kn :
                /\ kn[k].cells = kn[j].cells \ kn[i].cells
                /\ kn[k].count = kn[j].count - kn[i].count

\* the cells that the pairs present now show to be safe: the cells of b that
\* are not in a, for a pair with the same count
ShownSafe ==
    UNION {knowledge[x[2]].cells \ knowledge[x[1]].cells : x \in
              {y \in (DOMAIN knowledge) \X (DOMAIN knowledge) :
                  /\ knowledge[y[1]].cells # {}
                  /\ SubsetPair(knowledge[y[1]], knowledge[y[2]])
                  /\ knowledge[y[1]].count = knowledge[y[2]].count}}

Touching(cell) ==
    {c \in Cells : /\ c # cell
                   /\ (c[1] - cell[1]) * (c[1] - cell[1]) <= 1
                   /\ (c[2] - cell[2]) * (c[2] - cell[2]) <= 1}

\* C12: zero-count elimination.  With truthful observations, once
\* add_knowledge(cell, 0) has returned every in-bounds neighbour of cell is in
\* ai.safes.  (Under GameSpec moves_made is the set of cells add_knowledge was
\* called with, each with the count of the board; the last call is among them.)
C12_ZeroCountNeighboursSafe ==
    Returned =>
        \A cell \in moves_made :
            nearby_mines(board, cell) = 0 => Touching(cell) \subseteq safes

\* add_knowledge(cell, 0) has returned on a board that has mines, and it is the
\* only call so far: its neighbours are the safes that were never played
C12_Witness ==
    /\ Returned
    /\ board # {}
    /\ Cardinality(moves_made) = 1
    /\ \E cell \in moves_made :
          /\ nearby_mines(board, cell) = 0
          /\ Touching(cell) # {}
          /\ safes = Touching(cell) \union {cell}

\* C13: monotonic growth.  ai.moves_made, ai.safes and ai.mines only grow: no
\* step of add_knowledge, mark_mine or mark_safe removes a cell from any of
\* them, whatever the sequence of calls.
C13_SetsOnlyGrow ==
    [][/\ moves_made \subseteq moves_made'
       /\ safes \subseteq safes'
       /\ mines \subseteq mines']_vars

\* a mark_mine that followed an add_knowledge whose loop had filled ai.safes:
\* the three sets are all non-empty and what the first call added is kept
C13_Witness ==
    /\ op = "mark_mine"
    /\ moves_made # {}
    /\ moves_made \subseteq safes
    /\ Cardinality(safes) >= 4
    /\ mines # {}

\* C14: make_safe_move.  A call of make_safe_move returns a cell that is in
\* ai.safes and not in ai.moves_made whenever such a cell exists, returns None
\* exactly when ai.safes - ai.moves_made is empty, and leaves ai.moves_made,
\* ai.safes, ai.mines and ai.knowledge as they were.
C14_SafeMoveContract ==
    [][op' = "make_safe_move" =>
          /\ (safes \ moves_made # {} => result' \in safes \ moves_made)
          /\ (result' = None <=> safes \ moves_made = {})
          /\ moves_made' = moves_made
          /\ safes' = safes
          /\ mines' = mines
          /\ knowledge' = knowledge]_vars

\* make_safe_move has returned a cell although ai.safes also holds played
\* cells, with sentences still in ai.knowledge
C14_Witness ==
    /\ op = "make_safe_move"
    /\ result # None
    /\ result \in safes \ moves_made
    /\ safes \cap moves_made # {}
    /\ knowledge # <<>>

\* C15: Sentence.mark_mine(cell).  If cell is one of the sentence's cells,
\* afterwards it is removed, |cells| is smaller by exactly 1 and count is
\* smaller by exactly 1; if it is not, cells and count are both as before.
\* Stated for every sentence the methods can produce from any Sentence(cells,
\* count), for every cell of the grid.
C15_MarkMineContract ==
    \A cell \in Cells :
        LET before == knowledge[1]
            after == Sentence_mark_mine(before, cell)
        IN IF cell \in before.cells
           THEN /\ cell \notin after.cells
                /\ after.cells \subseteq before.cells
                /\ Cardinality(after.cells) = Cardinality(before.cells) - 1
                /\ after.count = before.count - 1
           ELSE /\ after.cells = before.cells
                /\ after.count = before.count

\* mark_mine has taken cells out of a sentence one after the other and has
\* been called with cells that were not there: the sentence is down to one
\* cell and its count went below what it was built with
C15_Witness ==
    /\ op = "Sentence.mark_mine"
    /\ Cardinality(knowledge[1].cells) = 1
    /\ knowledge[1].count < 0 - 1

\* 0 <= count <= |cells|
InRange(s) == s.count >= 0 /\ s.count <= Cardinality(s.cells)

\* C16 as stated: Sentence.mark_safe(cell) on a sentence containing cell
\* removes the cell (|cells| decreases by 1), leaves count unchanged, and
\* preserves 0 <= count <= |cells| for every sentence for which that range
\* held before the call.
C16_MarkSafeKeepsRange ==
    \A cell \in knowledge[1].cells :
        LET before == knowledge[1]
            after == Sentence_mark_safe(before, cell)
        IN /\ after.cells = before.cells \ {cell}
           /\ Cardinality(after.cells) = Cardinality(before.cells) - 1
           /\ after.count = before.count
           /\ InRange(before) => InRange(after)

\* C16, amended: Sentence.mark_safe(cell) on a sentence containing cell
\* removes the cell (|cells| decreases by 1) and leaves count unchanged; it
\* preserves 0 <= count <= |cells| for every sentence that had
\* 0 <= count < |cells| before the call, and for a sentence that had
\* count == |cells| the count is above |cells| afterwards.
C16_MarkSafeKeepsRangeBelowFull ==
    \A cell \in knowledge[1].cells :
        LET before == knowledge[1]
            after == Sentence_mark_safe(before, cell)
        IN /\ after.cells = before.cells \ {cell}
           /\ Cardinality(after.cells) = Cardinality(before.cells) - 1
           /\ after.count = before.count
           /\ (InRange(before) /\ before.count < Cardinality(before.cells))
                  => InRange(after)
           /\ before.count = Cardinality(before.cells)
                  => after.count > Cardinality(after.cells)

\* mark_safe has removed a cell from a sentence whose count was below its
\* number of cells: what is left is in range, with count == |cells|
C16_Witness ==
    /\ op = "Sentence.mark_safe"
    /\ knowledge[1].count = 2
    /\ Cardinality(knowledge[1].cells) = 2

\* C17: known_mines and known_safes.  For every Sentence (any cell set, any
\* count) known_mines() returns the whole cell set if count == |cells| and the
\* empty set otherwise, known_safes() returns the whole cell set if
\* count == 0 and the empty set otherwise (for a sentence that has cells the
\* whole set is returned in no other case), and neither call changes cells or
\* count.
C17_KnownCellsContract ==
    [][LET s == knowledge[1]
       IN /\ op' = "Sentence.known_mines" =>
                /\ knowledge' = knowledge
                /\ s.count = Cardinality(s.cells) => result' = s.cells
                /\ s.count # Cardinality(s.cells) => result' = {}
                /\ s.cells # {} => (result' = s.cells <=> s.count = Cardinality(s.cells))
          /\ op' = "Sentence.known_safes" =>
                /\ knowledge' = knowledge
                /\ s.count = 0 => result' = s.cells
                /\ s.count # 0 => result' = {}
                /\ s.cells # {} => (result' = s.cells <=> s.count = 0)]_vars

\* known_mines has returned the whole set of a sentence of two cells that
\* earlier calls of mark_mine had brought down to count == |cells|
C17_Witness ==
    /\ op = "Sentence.known_mines"
    /\ knowledge[1].count = 2
    /\ Cardinality(knowledge[1].cells) = 2
    /\ result = knowledge[1].cells

\* the neighbours of cell that are in none of ai.mines, ai.safes, ai.moves_made
Unknown(cell) == Touching(cell) \ (mines \union safes \union moves_made)

\* C18: construction of the new sentence.  add_knowledge(cell, count) builds,
\* before propagation starts, a Sentence whose cells are exactly the in-bounds
\* neighbours of cell that are in none of ai.mines, ai.safes, ai.moves_made
\* and whose count is count minus the number of neighbours already in
\* ai.mines; it is appended to ai.knowledge if and only if its cell set is
\* non-empty.  Consequently, when the adjusted count equals the number of
\* unknown neighbours, all of them are in ai.mines when the call returns.
C18_NewSentenceBuilt ==
    [][\A cell \in Cells, count \in 0 .. MaxCount :
          add_knowledge(cell, count) =>
              LET cells == Unknown(cell)
                  known == Cardinality(Touching(cell) \cap mines)
              IN /\ cells # {} =>
                       /\ Len(knowledge') = Len(knowledge) + 1
                       /\ knowledge'[Len(knowledge')].cells = cells
                       /\ knowledge'[Len(knowledge')].count = count - known
                 /\ cells = {} => Len(knowledge') = Len(knowledge)
                 /\ count - known = Cardinality(cells) =>
                       LET end == run_loop(knowledge', mines', safes', PassLimit)
                       IN end.returns => cells \subseteq end.mines]_vars

\* add_knowledge has just appended a sentence whose count is the number of
\* its cells, built next to cells that were already known safe
C18_Witness ==
    /\ pc = "pass"
    /\ passes = 0
    /\ safes \ moves_made # {}
    /\ knowledge # <<>>
    /\ knowledge[Len(knowledge)].count = 2
    /\ Cardinality(knowledge[Len(knowledge)].cells) = 2
    /\ AtReturn.returns

\* C19: only undetermined sentences survive.  With truthful observations,
\* when add_knowledge has returned every Sentence in ai.knowledge has a
\* non-empty cell set and 0 < count < |cells|: no empty sentence, none with
\* count == 0, none with count == |cells|.
C19_OnlyUndeterminedSurvive ==
    Returned =>
        \A i \in DOMAIN knowledge :
            /\ knowledge[i].cells # {}
            /\ 0 < knowledge[i].count
            /\ knowledge[i].count < Cardinality(knowledge[i].cells)

\* a call has returned after passes that marked cells and emptied sentences,
\* and sentences are left in the list
C19_Witness ==
    /\ Returned
    /\ passes >= 2
    /\ mines \union safes # moves_made
    /\ knowledge # <<>>

\* the cells of a set in row-major order
RECURSIVE RowMajor(_)
RowMajor(cells) ==
    IF cells = {} THEN <<>>
    ELSE LET first == CHOOSE c \in cells :
                          \A d \in cells :
                              c[1] < d[1] \/ (c[1] = d[1] /\ c[2] <= d[2])
         IN <<first>> \o RowMajor(cells \ {first})

\* C20: order independence of conclusions.  For a fixed grid and a fixed set
\* of distinct non-mine cells observed with their true neighbour counts, the
\* final ai.mines and ai.safes are the same for every order of the
\* add_knowledge calls: whatever order the calls came in, when the last one
\* has returned the two sets are the ones that the same cells give when they
\* are observed in row-major order on the same board.
C20_OrderIndependent ==
    Returned =>
        LET ai == play(new_ai, board, RowMajor(moves_made))
        IN ai.mines = mines /\ ai.safes = safes

\* all the reveals of a game have been made, in any of their orders, and
\* the AI has concluded mines and safes beyond the cells revealed
C20_Witness ==
    /\ Returned
    /\ calls = MaxObs
    /\ Cardinality(moves_made) = MaxObs
    /\ mines # {}
    /\ safes # moves_made

====
